---- MODULE Spec2Model ----
(***************************************************************************)
(* jina-crawler: the crawl orchestrator (crawl, startCrawling), the        *)
(* module-level RequestScheduler and the link scoping of src/src/index.ts  *)
(* (the current version of the file, lines 212-467).                       *)
(*                                                                         *)
(* JavaScript runs one macrotask at a time.  crawl() contains no await     *)
(* before its Promise.all, so one call of crawl(), with every recursive    *)
(* call it makes for pages served from disk and every addRequest, is one   *)
(* atomic step.  The suspension points of the program are the two network  *)
(* fetches inside a job and the rateLimit timer of processQueue; they are  *)
(* the states of a worker loop below.                                      *)
(***************************************************************************)
EXTENDS Integers, Sequences, FiniteSets, TLC

\* ------------------------------------------------------------------ bounds
MaxDepthBound == 2      \* maxDepth is drawn from 0..MaxDepthBound
NumRuns == 2            \* startCrawling invocations in the process
MaxLoops == 2           \* activations of processQueue's while loop that can coexist
MaxSecFail == 1         \* direct fetches that fail in one execution
MaxRefs == 2            \* references in the content given to a link extractor
MaxJobs == 4            \* jobs given to the scheduler on its own

Runs == 1..NumRuns
Loops == 1..MaxLoops

\* -------------------------------------------------------------------- URLs
\* A parsed absolute URL (node:url URL): origin, pathname split at "/" after
\* the leading slash ("/docs/a/" is <<"docs","a","">>, "/" is <<"">>), query
\* and fragment (<<>> when absent, else the text after "#" split at "/":
\* "#" is <<"">>, "#top" is <<"top">>, "#/guide" is <<"", "guide">>).
Url(org, path, query, frag) == [org |-> org, path |-> path, query |-> query, frag |-> frag]

NoUrl == Url("none", <<>>, <<>>, <<>>)

S   == Url("ex", <<"docs">>, <<>>, <<>>)               \* https://ex/docs
A   == Url("ex", <<"docs", "a">>, <<>>, <<>>)          \* https://ex/docs/a
ASl == Url("ex", <<"docs", "a", "">>, <<>>, <<>>)      \* https://ex/docs/a/
AT  == Url("ex", <<"docs", "a">>, <<>>, <<"top">>)     \* https://ex/docs/a#top
B   == Url("ex", <<"docs", "b">>, <<>>, <<>>)          \* https://ex/docs/b
C   == Url("ex", <<"docs", "c">>, <<>>, <<>>)          \* https://ex/docs/c
D   == Url("ex", <<"docs", "b", "d">>, <<>>, <<>>)     \* https://ex/docs/b/d
X   == Url("ex", <<"other">>, <<>>, <<>>)              \* https://ex/other
Dn  == Url("ex", <<"documentation">>, <<>>, <<>>)      \* https://ex/documentation
Y   == Url("ot", <<"docs", "a">>, <<>>, <<>>)          \* https://ot/docs/a
E   == Url("ex", <<"docs", "e">>, <<>>, <<>>)          \* https://ex/docs/e

Urls == {S, A, ASl, AT, B, C, D, X, Dn, Y, E}

\* URLs the link functions are called with besides those above.
Root == Url("ex", <<"">>, <<>>, <<>>)                          \* https://ex/
SSl  == Url("ex", <<"docs", "">>, <<>>, <<>>)                  \* https://ex/docs/
AQ   == Url("ex", <<"docs", "a">>, <<"v=1">>, <<>>)            \* https://ex/docs/a?v=1
DnG  == Url("ex", <<"documentation", "guide">>, <<>>, <<>>)    \* https://ex/documentation/guide
G    == Url("ex", <<"docs", "guide", "intro.html">>, <<>>, <<>>)
GPage1    == Url("ex", <<"docs", "guide", "page1.html">>, <<>>, <<>>)
APage1    == Url("ex", <<"docs", "a", "page1.html">>, <<>>, <<>>)
RootPage1 == Url("ex", <<"page1.html">>, <<>>, <<>>)           \* https://ex/page1.html
OtherPage == Url("ex", <<"other", "page.html">>, <<>>, <<>>)   \* https://ex/other/page.html
YX   == Url("ot", <<"other">>, <<>>, <<>>)                     \* https://ot/other
Jpg    == Url("ex", <<"docs", "clickable.jpg">>, <<>>, <<>>)   \* https://ex/docs/clickable.jpg
Png    == Url("ex", <<"docs", "pic.png">>, <<>>, <<>>)         \* https://ex/docs/pic.png
PngUp  == Url("ex", <<"docs", "PIC.PNG">>, <<>>, <<>>)         \* https://ex/docs/PIC.PNG
PngQ   == Url("ex", <<"docs", "pic.png">>, <<"v=1">>, <<>>)    \* https://ex/docs/pic.png?v=1
AQPng  == Url("ex", <<"docs", "a">>, <<"f=a.png">>, <<>>)      \* https://ex/docs/a?f=a.png
Pdf    == Url("ex", <<"docs", "file.pdf">>, <<>>, <<>>)        \* https://ex/docs/file.pdf
PdfUp  == Url("ex", <<"docs", "FILE.PDF">>, <<>>, <<>>)        \* https://ex/docs/FILE.PDF
PdfQ   == Url("ex", <<"docs", "file.pdf">>, <<"v=1">>, <<>>)   \* https://ex/docs/file.pdf?v=1
Zip    == Url("ex", <<"docs", "a.zip">>, <<>>, <<>>)           \* https://ex/docs/a.zip
Mp4    == Url("ex", <<"docs", "movie.mp4">>, <<>>, <<>>)       \* https://ex/docs/movie.mp4
Php    == Url("ex", <<"docs", "page.php">>, <<>>, <<>>)        \* https://ex/docs/page.php
HttpA  == Url("http-ex", <<"docs", "a">>, <<>>, <<>>)          \* http://ex/docs/a
Mailto == Url("mailto", <<"admin@ex">>, <<>>, <<>>)            \* mailto:admin@ex
Js     == Url("javascript", <<"void(0)">>, <<>>, <<>>)         \* javascript:void(0)
Ftp    == Url("ftp", <<"docs", "a">>, <<>>, <<>>)              \* ftp://ex/docs/a
NotAUrl == Url("invalid", <<"not-a-url">>, <<>>, <<>>)         \* a string new URL() rejects
AHash  == Url("ex", <<"docs", "a">>, <<>>, <<"">>)             \* https://ex/docs/a#
ARoute == Url("ex", <<"docs", "a">>, <<>>, <<"", "guide">>)    \* https://ex/docs/a#/guide
AQT    == Url("ex", <<"docs", "a">>, <<"v=1">>, <<"top">>)     \* https://ex/docs/a?v=1#top
AQRoute == Url("ex", <<"docs", "a">>, <<"v=1">>, <<"", "guide">>)  \* https://ex/docs/a?v=1#/guide

\* The scheme of a URL with the given origin ("" when there is none).
Scheme(org) ==
    CASE org \in {"ex", "ot"} -> "https"
      [] org = "http-ex"      -> "http"
      [] org \in {"mailto", "javascript", "tel", "ftp", "data", "file", "about"} -> org
      [] OTHER                -> ""

\* The extension a name ends in, in lower case ("" when it has none).
Extension(name) ==
    CASE name = "clickable.jpg"             -> "jpg"
      [] name \in {"pic.png", "PIC.PNG", "f=a.png"} -> "png"
      [] name \in {"file.pdf", "FILE.PDF"}  -> "pdf"
      [] name = "a.zip"                     -> "zip"
      [] name = "movie.mp4"                 -> "mp4"
      [] name = "page.php"                  -> "php"
      [] name \in {"page.html", "page1.html", "intro.html"} -> "html"
      [] OTHER                              -> ""

BaseUrl == S

\* ------------------------------------------------------------ page content
\* A reference found in a page: an absolute href, or a root-relative one
\* ("/docs/c"), whose origin is that of the page it is found on.
Link(u)     == [kind |-> "link",  abs |-> TRUE,  url |-> u]
RootLink(u) == [kind |-> "link",  abs |-> FALSE, url |-> [u EXCEPT !.org = ""]]
Image(u)    == [kind |-> "image", abs |-> TRUE,  url |-> u]
\* A path-relative reference ("./page1.html", "../../other/page.html"): its
\* segments, dot segments included.
Rel(segs)   == [kind |-> "link",  abs |-> FALSE, url |-> Url(".", segs, <<>>, <<>>)]

\* A link whose label is an image construct, [![alt](img)](page); in HTML an
\* anchor to page around an image element.
ImageLink(img, page) == [kind |-> "imagelink", abs |-> TRUE, url |-> page, img |-> img]

\* A link target that new URL() rejects.
Malformed == Link(NotAUrl)

DotPage1  == Rel(<<".", "page1.html">>)
UpUpOther == Rel(<<"..", "..", "other", "page.html">>)

Page(md, html) == [md |-> md, html |-> html]
NoPage == Page(<<>>, <<>>)

\* The site graphs the crawler is run against: for each URL the Markdown the
\* proxy returns and the anchors of the original HTML.
Site1 == [u \in Urls |->
    CASE u = S -> Page(<<Link(A), Link(B), Link(X)>>, <<>>)
      [] u = A -> Page(<<Link(B)>>, <<>>)
      [] u = B -> Page(<<Link(C), Link(S)>>, <<>>)
      [] OTHER -> NoPage]

Site2 == [u \in Urls |->
    CASE u = S   -> Page(<<Link(A), Link(ASl), Image(C), Link(Y)>>, <<Link(Dn)>>)
      [] u = A   -> Page(<<Link(B)>>, <<Link(B)>>)
      [] u = ASl -> Page(<<Link(S)>>, <<>>)
      [] OTHER   -> NoPage]

Site3 == [u \in Urls |->
    CASE u = S -> Page(<<Link(A), Link(A)>>, <<RootLink(C), Link(A), Link(B)>>)
      [] u = A -> Page(<<Link(AT), RootLink(B)>>, <<Link(X)>>)
      [] u = B -> Page(<<>>, <<Link(D)>>)
      [] u = C -> Page(<<Link(D), Link(S)>>, <<Link(Y)>>)
      [] OTHER -> NoPage]

\* A page (D) two links from the seed through B and three through A and C.
Site4 == [u \in Urls |->
    CASE u = S -> Page(<<Link(B), Link(A)>>, <<>>)
      [] u = A -> Page(<<Link(C)>>, <<>>)
      [] u = B -> Page(<<Link(D)>>, <<>>)
      [] u = C -> Page(<<Link(D)>>, <<>>)
      [] u = D -> Page(<<Link(E)>>, <<>>)
      [] OTHER -> NoPage]

Sites == <<Site1, Site2, Site3, Site4>>

\* The sites crawled with any depth and any artifacts on disk.
CrawlSites == {1, 2, 3}

\* URLs whose artifact may already be on disk when the process starts.
Preloadable == {S, A}

\* --------------------------------------------------------------- variables
VARIABLES
    site,       \* the site graph of this execution (index into Sites)
    maxDepth,   \* the maxDepth argument of startCrawling
    files,      \* the artifacts on disk: file path -> the URL whose Markdown it holds
    started,    \* the runs whose startCrawling has been called
    resolvedRuns, \* the runs whose startCrawling promise has resolved
    visited,    \* visited[r]: the Set<string> of run r
    queue,      \* RequestScheduler.queue
    isRunning,  \* RequestScheduler.isRunning
    loops,      \* the activations of processQueue's loop and where each stands
    \* history of the execution, read by the properties only
    depthOf,    \* depthOf[r][u]: the depth argument of the crawl() that visited u
    parentOf,   \* parentOf[r][u]: the page whose link made that call
    viaFile,    \* <<r, u>>: u was served from its artifact in run r
    extracted,  \* extracted[r][u]: the links the run recursed into from u
    calls,      \* every call of crawl(): [run, parent, url, depth]
    enqLog,     \* every job passed to addRequest, in order
    enqPhase,   \* enqPhase[i]: what the scheduler was doing when enqLog[i] was added
    execLog,    \* every job started by a worker loop, in order
    secLog,     \* every job whose secondary fetch was issued, in order
    primRes,    \* primRes[r][u]: outcome of the proxy fetch of u ("none" "ok" "fail")
    secRes,     \* secRes[r][u]: outcome of the direct fetch of u
    doneLog,    \* every job whose promise resolved, in order
    gap,        \* what the scheduler did last: "fresh", "ended" (a job), "rested" (a delay)
    gapAtStart, \* gapAtStart[i]: the value of gap when job execLog[i] started
    \* one call of a link function, for the properties of the pure functions
    lsBase,     \* the baseUrl argument
    lsCur,      \* the currentUrl argument of the extractors
    lsContent,  \* the content argument: the references of the page, in order
    lsUrl,      \* the url argument of isUrlInScope
    lsOut       \* the call made and what it returned

linkVars == <<lsBase, lsCur, lsContent, lsUrl, lsOut>>

crawlVars == <<site, maxDepth, files, started, resolvedRuns, visited, queue, isRunning,
               loops, depthOf, parentOf, viaFile, extracted, calls, enqLog, enqPhase,
               execLog, secLog, primRes, secRes, doneLog, gap, gapAtStart>>

vars == <<crawlVars, linkVars>>

NoJob == [run |-> 0, url |-> NoUrl, depth |-> 0]
Job(r, u, d) == [run |-> r, url |-> u, depth |-> d]
IdleLoop == [pc |-> "none", job |-> NoJob]

\* ---------------------------------------------------------- pure functions
\* Nothing is removed.
DedupNone(seq) == seq

\* Array.from(new Set(urls)): first occurrences, in order.
RECURSIVE Dedup(_)
Dedup(seq) ==
    IF seq = <<>> THEN <<>>
    ELSE LET rest == Dedup(SubSeq(seq, 1, Len(seq) - 1))
             last == seq[Len(seq)]
         IN IF \E i \in 1..Len(rest) : rest[i] = last THEN rest ELSE Append(rest, last)

\* The trailing slash is kept.
StripSlashNone(path) == path

\* pathname.replace(/\/$/, ''): drops one trailing slash.
StripSlash(path) ==
    IF path # <<>> /\ path[Len(path)] = "" THEN SubSeq(path, 1, Len(path) - 1) ELSE path

IsPrefix(p, q) == Len(p) <= Len(q) /\ SubSeq(q, 1, Len(p)) = p

\* a.startsWith(b) for the path segments that occur.
StartsWith(a, b) == a = b \/ b = "" \/ <<a, b>> \in {<<"documentation", "docs">>}

\* index.ts 104: absoluteUrl.startsWith(baseUrl), a comparison of strings.
isUrlInScopeStartsWith(url, baseUrl) ==
    LET n == Len(baseUrl.path)
    IN /\ url.org = baseUrl.org
       /\ n <= Len(url.path)
       /\ \A i \in 1..(n - 1) : url.path[i] = baseUrl.path[i]
       /\ StartsWith(url.path[n], baseUrl.path[n])

\* Only the origin is compared.
isUrlInScopeSameOrigin(url, baseUrl) == url.org = baseUrl.org

\* index.ts 321-341.  On "/"-split paths, urlPath.startsWith(basePath + "/")
\* is "basePath is a proper prefix of urlPath".
isUrlInScope(url, baseUrl) ==
    LET basePath == StripSlash(baseUrl.path)
        urlPath  == StripSlash(url.path)
    IN /\ url.org = baseUrl.org
       /\ \/ urlPath = basePath
          \/ (IsPrefix(basePath, urlPath) /\ Len(urlPath) > Len(basePath))
          \/ (basePath = <<>> /\ urlPath # <<>>)

\* The path reached from directory dir by the segments of a relative
\* reference: "." stays, ".." goes up (not above the root), a final dot
\* segment leaves a trailing slash.
RECURSIVE ApplySegments(_, _)
ApplySegments(dir, segs) ==
    IF segs = <<>> THEN dir
    ELSE LET h    == Head(segs)
             last == Len(segs) = 1
             up   == IF dir = <<>> THEN <<>> ELSE SubSeq(dir, 1, Len(dir) - 1)
         IN CASE h = "."  -> IF last THEN Append(dir, "") ELSE ApplySegments(dir, Tail(segs))
              [] h = ".." -> IF last THEN Append(up, "") ELSE ApplySegments(up, Tail(segs))
              [] OTHER    -> ApplySegments(Append(dir, h), Tail(segs))

\* new URL(link, currentUrl): an absolute reference stands for itself, a
\* root-relative one takes the origin of the page it is found on, a
\* path-relative one is followed from the directory of that page.
Resolve(ref, currentUrl) ==
    CASE ref.abs           -> ref.url
      [] ref.url.org = "." ->
            [ref.url EXCEPT !.org = currentUrl.org,
                            !.path = ApplySegments(SubSeq(currentUrl.path, 1,
                                                          Len(currentUrl.path) - 1), @)]
      [] OTHER             -> [ref.url EXCEPT !.org = currentUrl.org]

\* index.ts 346: the image constructs are removed from the content; of a
\* link whose label is an image construct the link is left, its label empty.
RemoveImages(content) ==
    LET kept == SelectSeq(content, LAMBDA it : it.kind # "image")
    IN [i \in 1..Len(kept) |->
           IF kept[i].kind = "imagelink"
           THEN [kind |-> "link", abs |-> kept[i].abs, url |-> kept[i].url]
           ELSE kept[i]]

\* The link pattern of index.ts 349 on content that still holds its image
\* constructs: "[alt](img)" is matched in "![alt](img)", and in
\* "[![alt](img)](page)" the match ends at the target of the image.
MatchWithImages(content) ==
    [i \in 1..Len(content) |->
        IF content[i].kind = "imagelink"
        THEN [kind |-> "link", abs |-> TRUE, url |-> content[i].img]
        ELSE [kind |-> "link", abs |-> content[i].abs, url |-> content[i].url]]

\* new URL(link, currentUrl) returns for ref.
CanResolve(ref, currentUrl) == ref.url.org # "invalid"

\* One candidate that throws ends the extraction with nothing.
ResolvableOrNone(refs, currentUrl) ==
    IF \A i \in 1..Len(refs) : CanResolve(refs[i], currentUrl) THEN refs ELSE <<>>

\* index.ts 354-364, 380-390: the try/catch inside the loop; a candidate
\* that throws is logged and the loop goes on with the next one.
Resolvable(refs, currentUrl) ==
    SelectSeq(refs, LAMBDA it : CanResolve(it, currentUrl))

\* index.ts 375
imageExtensions == {"jpg", "jpeg", "png", "gif", "bmp", "webp", "svg", "ico"}

\* The last piece of the href as written: of the fragment when there is one,
\* else of the query when there is one, else of the path.
HrefEnd(href) ==
    CASE href.frag # <<>>  -> href.frag[Len(href.frag)]
      [] href.query # <<>> -> href.query[Len(href.query)]
      [] OTHER             -> href.path[Len(href.path)]

\* index.ts 379: imageExtensions.test(href), the pattern anchored at the end
\* of the href as written.
IsImageHref(href) == Extension(HrefEnd(href)) \in imageExtensions

\* The image constructs are not removed before the links are matched.
extractLinksKeepImages(content, currentUrl, baseUrl) ==
    LET links    == Resolvable(MatchWithImages(content), currentUrl)
        resolved == [i \in 1..Len(links) |-> Resolve(links[i], currentUrl)]
    IN Dedup(SelectSeq(resolved, LAMBDA u : isUrlInScope(u, baseUrl)))

\* index.ts 101: new URL(link, baseUrl), the references are resolved against
\* the base URL of the run.
extractLinksAgainstBase(content, currentUrl, baseUrl) ==
    LET noImages == SelectSeq(content, LAMBDA it : it.kind # "image")
        resolved == [i \in 1..Len(noImages) |-> Resolve(noImages[i], baseUrl)]
    IN Dedup(SelectSeq(resolved, LAMBDA u : isUrlInScope(u, baseUrl)))

\* index.ts 343-367: image constructs are removed, the other link targets are
\* resolved against currentUrl, kept when in scope of baseUrl, deduplicated.
extractLinks(content, currentUrl, baseUrl) ==
    LET links    == Resolvable(RemoveImages(content), currentUrl)
        resolved == [i \in 1..Len(links) |-> Resolve(links[i], currentUrl)]
    IN Dedup(SelectSeq(resolved, LAMBDA u : isUrlInScope(u, baseUrl)))

\* index.ts 369-395: the anchors of the original HTML (querySelectorAll('a')
\* does not select an image element) whose href does not end in an image
\* extension are resolved against currentUrl, kept when in scope of baseUrl,
\* deduplicated.
extractLinksFromHtml(content, currentUrl, baseUrl) ==
    LET anchors  == SelectSeq(content, LAMBDA it : it.kind # "image")
        hrefs    == Resolvable(SelectSeq(anchors, LAMBDA it : ~IsImageHref(it.url)),
                               currentUrl)
        resolved == [i \in 1..Len(hrefs) |-> Resolve(hrefs[i], currentUrl)]
    IN Dedup(SelectSeq(resolved, LAMBDA u : isUrlInScope(u, baseUrl)))

NonEmpty(path) == SelectSeq(path, LAMBDA seg : seg # "")

\* index.ts 449-456: path.join(base pathname, url pathname) without its
\* leading slash; path.join drops empty segments, path.basename ignores a
\* trailing slash, query and fragment are not part of pathname; the empty
\* relative path is "index".  The file is <the segments>.md under docs/<name>.
getFilePath(baseUrl, url) ==
    LET relativePath == NonEmpty(baseUrl.path) \o NonEmpty(url.path)
    IN IF relativePath = <<>> THEN <<"index">> ELSE relativePath

\* url.split('#')[0]
SplitHash(url) == [url EXCEPT !.frag = <<>>]

\* Every fragment is dropped.
normalizeUrlDropsFragment(url) == [url EXCEPT !.frag = <<>>]

\* The URL a target is identified by: the fragment is kept when it contains
\* a "/" (a client-side route) and dropped otherwise; the query is kept.
normalizeUrl(url) == IF Len(url.frag) >= 2 THEN url ELSE [url EXCEPT !.frag = <<>>]

\* The extensions of files that are not documents to crawl: archives,
\* office documents, executables, video, audio.
nonDocumentExtensions ==
    {"zip", "rar", "7z", "tar", "gz", "bz2", "xz",
     "pdf", "doc", "docx", "xls", "xlsx", "ppt", "pptx", "odt", "ods", "odp",
     "exe", "dmg", "pkg", "deb", "rpm", "msi", "apk",
     "mp4", "avi", "mov", "wmv", "flv", "mkv", "webm",
     "mp3", "wav", "ogg", "flac", "aac", "m4a"}

\* The scheme is not looked at.
shouldCrawlUrlAnyScheme(url) ==
    /\ Scheme(url.org) # ""
    /\ Extension(url.path[Len(url.path)]) \notin nonDocumentExtensions

\* Whether a target is worth fetching: an http or https URL whose path does
\* not end in a non-document extension; false for what does not parse.
shouldCrawlUrl(url) ==
    /\ Scheme(url.org) \in {"http", "https"}
    /\ Extension(url.path[Len(url.path)]) \notin nonDocumentExtensions

\* The directories are left out of the path.
saveFilePathFlat(baseUrl, url) ==
    LET relativePath == NonEmpty(baseUrl.path) \o NonEmpty(url.path)
    IN IF relativePath = <<>> THEN <<"index">> ELSE <<relativePath[Len(relativePath)]>>

\* index.ts 286-303: the path saveContent writes to: path.dirname of the
\* joined path under docs/<name>, then path.basename or "index".
saveFilePath(baseUrl, url) ==
    LET relativePath == NonEmpty(baseUrl.path) \o NonEmpty(url.path)
        dir      == IF Len(relativePath) <= 1 THEN <<>>
                    ELSE SubSeq(relativePath, 1, Len(relativePath) - 1)
        filename == IF relativePath = <<>> THEN "index" ELSE relativePath[Len(relativePath)]
    IN dir \o <<filename>>

FilePaths == {getFilePath(BaseUrl, u) : u \in Urls} \cup {saveFilePath(BaseUrl, u) : u \in Urls}

existsSync(path) == files[path] # NoUrl

\* The Markdown stored in the file at path: that of the page it was saved for.
readFileSync(path) == Sites[site][files[path]].md

\* index.ts 258-283: what the two sources return for a URL; the fragment is
\* not part of the request, so "/docs/a#top" is served the page "/docs/a".
fetchContent(url) == Sites[site][SplitHash(url)].md

fetchOriginalContent(url) == Sites[site][SplitHash(url)].html

\* ------------------------------------------------------- the state, threaded
\* crawl() and the scheduler methods it calls run to completion inside one
\* step; they are operators from state record to state record.
Cur == [visited |-> visited, queue |-> queue, isRunning |-> isRunning, loops |-> loops,
        depthOf |-> depthOf, parentOf |-> parentOf, viaFile |-> viaFile,
        extracted |-> extracted, calls |-> calls, enqLog |-> enqLog,
        enqPhase |-> enqPhase,
        execLog |-> execLog, gap |-> gap, gapAtStart |-> gapAtStart]

Commit(s) ==
    \E c \in {s} :
        /\ visited' = c.visited
        /\ queue' = c.queue
        /\ isRunning' = c.isRunning
        /\ loops' = c.loops
        /\ depthOf' = c.depthOf
        /\ parentOf' = c.parentOf
        /\ viaFile' = c.viaFile
        /\ extracted' = c.extracted
        /\ calls' = c.calls
        /\ enqLog' = c.enqLog
        /\ enqPhase' = c.enqPhase
        /\ execLog' = c.execLog
        /\ gap' = c.gap
        /\ gapAtStart' = c.gapAtStart

\* ------------------------------------------------------- RequestScheduler
\* The newest job of the queue is taken.
StartJobLast(s, w) ==
    LET job == s.queue[Len(s.queue)]
    IN [s EXCEPT !.queue = SubSeq(s.queue, 1, Len(s.queue) - 1),
                 !.loops[w] = [pc |-> "primary", job |-> job],
                 !.execLog = Append(@, job),
                 !.gapAtStart = Append(@, s.gap)]

\* The job stays in the queue when it starts.
StartJobKeepsQueued(s, w) ==
    LET job == Head(s.queue)
    IN [s EXCEPT !.loops[w] = [pc |-> "primary", job |-> job],
                 !.execLog = Append(@, job),
                 !.gapAtStart = Append(@, s.gap)]

\* index.ts 239-241: queue.shift() and the call fn(), which runs the job up
\* to its first await: the proxy fetch of fetchContent is issued.
StartJob(s, w) ==
    LET job == Head(s.queue)
    IN [s EXCEPT !.queue = Tail(s.queue),
                 !.loops[w] = [pc |-> "primary", job |-> job],
                 !.execLog = Append(@, job),
                 !.gapAtStart = Append(@, s.gap)]

\* The loop ends without clearing isRunning.
LoopHeadStaysRunning(s, w) ==
    IF s.queue # <<>>
    THEN StartJob(s, w)
    ELSE [s EXCEPT !.loops[w] = IdleLoop]

\* index.ts 238-246: the loop test; an empty queue ends the loop.
LoopHead(s, w) ==
    IF s.queue # <<>>
    THEN StartJob(s, w)
    ELSE [s EXCEPT !.loops[w] = IdleLoop, !.isRunning = FALSE]

FreeLoops(s) == {w \in Loops : s.loops[w].pc = "none"}

\* index.ts 236-238: isRunning = true and the first loop test, in a new
\* activation of the loop.
StartLoop(s) ==
    IF FreeLoops(s) = {} THEN s
    ELSE LET w == CHOOSE x \in FreeLoops(s) : \A y \in FreeLoops(s) : x <= y
         IN LoopHead([s EXCEPT !.isRunning = TRUE], w)

\* processQueue with the isRunning test left out: every call starts a loop.
processQueueNoGuard(s) == StartLoop(s)

\* index.ts 233-237: a call returns at once while a loop is active.
processQueue(s) ==
    IF s.isRunning THEN s ELSE StartLoop(s)

\* What the scheduler is doing: "idle", "job" (a job is executing), "delay"
\* (a loop awaits rateLimit) or "dead" (its loop threw).
Phase(s) ==
    IF \E w \in Loops : s.loops[w].pc \in {"primary", "secondary"} THEN "job"
    ELSE IF \E w \in Loops : s.loops[w].pc = "delay" THEN "delay"
    ELSE IF \E w \in Loops : s.loops[w].pc = "dead" THEN "dead"
    ELSE "idle"

\* The job is pushed and no loop is started for it.
addRequestNoStart(s, job) ==
    [s EXCEPT !.queue = Append(@, job), !.enqLog = Append(@, job),
              !.enqPhase = Append(@, Phase(s))]

\* index.ts 228-231
addRequest(s, job) ==
    processQueue([s EXCEPT !.queue = Append(@, job), !.enqLog = Append(@, job),
                           !.enqPhase = Append(@, Phase(s))])

\* The loop goes on to the next job as soon as fn() has resolved.
JobResolvedNoDelay(s, w) ==
    LoopHead([s EXCEPT !.gap = "ended"], w)

\* The job's promise is held back while jobs are queued behind it: crawl()
\* would await the jobs of its children.
JobResolvedAwaitsQueue(s, w) ==
    IF s.queue # <<>> THEN [s EXCEPT !.loops[w].pc = "waiting"]
    ELSE [s EXCEPT !.loops[w].pc = "delay", !.gap = "ended"]

\* index.ts 241-242: fn() has resolved, the loop awaits rateLimit(3000).
JobResolved(s, w) ==
    [s EXCEPT !.loops[w].pc = "delay", !.gap = "ended"]

\* The failed target is taken out of the visited set, to be tried again.
JobRejectedUnvisits(s, w) ==
    [s EXCEPT !.loops[w].pc = "dead", !.gap = "ended",
              !.visited[s.loops[w].job.run] = @ \ {s.loops[w].job.url}]

\* The failed primary fetch of the job is issued again.
JobRejectedRetries(s, w) ==
    [s EXCEPT !.execLog = Append(@, s.loops[w].job),
              !.gapAtStart = Append(@, "rested")]

\* index.ts 241: fn() has rejected; the await throws, processQueue's promise
\* rejects, the loop is gone and isRunning is still true.
JobRejected(s, w) ==
    [s EXCEPT !.loops[w].pc = "dead", !.gap = "ended"]

\* ------------------------------------------------------------------ crawl
RECURSIVE crawl(_, _, _, _, _), crawlAll(_, _, _, _, _), ServeFromFile(_, _, _, _)

SkipUnlessDeeperByTwo(s, r, url, depth) ==
    depth > maxDepth + 1 \/ url \in s.visited[r]

SkipOnDepthOnly(s, r, url, depth) ==
    depth > maxDepth

\* index.ts 406
ShouldSkip(s, r, url, depth) ==
    depth > maxDepth \/ url \in s.visited[r]

\* index.ts 418, 436, 445: depth + 1
ChildDepth(depth) == depth + 1

\* The artifact is found and the call returns without reading its links.
ServeFromFileNoLinks(s, r, url, depth) ==
    [s EXCEPT !.viaFile = @ \cup {<<r, url>>}]

\* index.ts 414-420: the artifact exists; its Markdown links are crawled.
ServeFromFile(s, r, url, depth) ==
    LET content == readFileSync(getFilePath(BaseUrl, url))
        mdLinks == extractLinks(content, url, BaseUrl)
    IN crawlAll([s EXCEPT !.viaFile = @ \cup {<<r, url>>}, !.extracted[r][url] = mdLinks],
                r, mdLinks, ChildDepth(depth), url)

\* index.ts 397-447, up to the return of the call (the job is only queued).
crawl(s, r, url, depth, parent) ==
    LET s0 == [s EXCEPT !.calls = @ \cup
                   {[run |-> r, parent |-> parent, url |-> url, depth |-> depth]}]
    IN IF ShouldSkip(s0, r, url, depth) THEN s0
       ELSE LET s1 == [s0 EXCEPT !.visited[r] = @ \cup {url},
                                 !.depthOf[r][url] = depth,
                                 !.parentOf[r][url] = parent]
            IN IF existsSync(getFilePath(BaseUrl, url))
               THEN ServeFromFile(s1, r, url, depth)
               ELSE addRequest(s1, Job(r, url, depth))

\* links.map(link => crawl(link, ..., depth, ...)): the calls, in order.
crawlAll(s, r, links, depth, parent) ==
    IF links = <<>> THEN s
    ELSE crawlAll(crawl(s, r, Head(links), depth, parent), r, Tail(links), depth, parent)

\* The file is written whether it exists or not.
saveContentOverwrites(url, content) ==
    [files EXCEPT ![saveFilePath(BaseUrl, url)] = content]

\* index.ts 285-313: the file is written unless it exists.
saveContent(url, content) ==
    LET filePath == saveFilePath(BaseUrl, url)
    IN IF existsSync(filePath) THEN files ELSE [files EXCEPT ![filePath] = content]

\* The HTML links are not used.
JobLinksMdOnly(url, secondaryOk) ==
    extractLinks(fetchContent(url), url, BaseUrl)

\* index.ts 426-445: the links the job recurses into.
JobLinks(url, secondaryOk) ==
    LET mdLinks   == extractLinks(fetchContent(url), url, BaseUrl)
        htmlLinks == extractLinksFromHtml(fetchOriginalContent(url), url, BaseUrl)
    IN IF secondaryOk /\ Len(htmlLinks) > 0 THEN Dedup(mdLinks \o htmlLinks) ELSE mdLinks

\* ---------------------------------------------------------------- actions
\* The process before any call of startCrawling, the artifacts of pre on disk.
InitCrawl(sites, depths, pres) ==
    /\ site \in sites
    /\ maxDepth \in depths
    /\ \E pre \in pres :
         files = [p \in FilePaths |->
                    IF \E u \in pre : getFilePath(BaseUrl, u) = p
                    THEN CHOOSE u \in pre : getFilePath(BaseUrl, u) = p
                    ELSE NoUrl]
    /\ started = {}
    /\ resolvedRuns = {}
    /\ visited = [r \in Runs |-> {}]
    /\ queue = <<>>
    /\ isRunning = FALSE
    /\ loops = [w \in Loops |-> IdleLoop]
    /\ depthOf = [r \in Runs |-> [u \in Urls |-> -1]]
    /\ parentOf = [r \in Runs |-> [u \in Urls |-> NoUrl]]
    /\ viaFile = {}
    /\ extracted = [r \in Runs |-> [u \in Urls |-> <<>>]]
    /\ calls = {}
    /\ enqLog = <<>>
    /\ enqPhase = <<>>
    /\ execLog = <<>>
    /\ secLog = <<>>
    /\ primRes = [r \in Runs |-> [u \in Urls |-> "none"]]
    /\ secRes = [r \in Runs |-> [u \in Urls |-> "none"]]
    /\ doneLog = <<>>
    /\ gap = "fresh"
    /\ gapAtStart = <<>>

NoCall == [fn |-> "none", result |-> <<>>]

\* No call of a link function is observed.
InitNoLinkCall ==
    /\ lsBase = BaseUrl
    /\ lsCur = BaseUrl
    /\ lsContent = <<>>
    /\ lsUrl = BaseUrl
    /\ lsOut = NoCall

Init ==
    /\ InitCrawl(CrawlSites, 0..MaxDepthBound, SUBSET Preloadable)
    /\ InitNoLinkCall

\* index.ts 465: the promise of crawl(baseUrl, ...) is settled by the end of
\* the call's turn: crawl() either returns after addRequest (446) or awaits
\* (418) the promises of child calls that are settled in the same way.
PromiseResolved(r) == resolvedRuns \cup {r}

\* One visited set of the module is used by every run: that of the first.
startCrawlingSharedVisited(r) ==
    /\ r \notin started
    /\ \A q \in Runs : q < r => q \in started
    /\ started' = started \cup {r}
    /\ Commit(crawl(Cur, 1, BaseUrl, 0, NoUrl))
    /\ resolvedRuns' = PromiseResolved(r)
    /\ UNCHANGED <<site, maxDepth, files, secLog, primRes, secRes, doneLog, linkVars>>

\* index.ts 458-466: a new visited set, then crawl(baseUrl, ..., 0, ...).
\* Runs are numbered in the order of their calls.
startCrawling(r) ==
    /\ r \notin started
    /\ \A q \in Runs : q < r => q \in started
    /\ started' = started \cup {r}
    /\ Commit(crawl(Cur, r, BaseUrl, 0, NoUrl))
    /\ resolvedRuns' = PromiseResolved(r)
    /\ UNCHANGED <<site, maxDepth, files, secLog, primRes, secRes, doneLog, linkVars>>

\* index.ts 424-430: the proxy fetch returned; the content is saved and the
\* direct fetch of the same URL is issued.
PrimaryOk(w) ==
    /\ loops[w].pc = "primary"
    /\ LET job == loops[w].job
       IN /\ files' = saveContent(SplitHash(job.url), SplitHash(job.url))
          /\ primRes' = [primRes EXCEPT ![job.run][job.url] = "ok"]
          /\ secLog' = Append(secLog, job)
          /\ loops' = [loops EXCEPT ![w].pc = "secondary"]
    /\ UNCHANGED <<site, maxDepth, started, resolvedRuns, visited, queue, isRunning, depthOf,
                   parentOf, viaFile, extracted, calls, enqLog, enqPhase, execLog, secRes,
                   doneLog, gap, gapAtStart, linkVars>>

\* index.ts 424: got() throws; nothing in the job catches it.
PrimaryFail(w) ==
    /\ loops[w].pc = "primary"
    /\ LET job == loops[w].job
       IN primRes' = [primRes EXCEPT ![job.run][job.url] = "fail"]
    /\ Commit(JobRejected(Cur, w))
    /\ UNCHANGED <<site, maxDepth, files, started, resolvedRuns, secLog, secRes, doneLog,
                   linkVars>>

\* index.ts 430-446: the direct fetch returned (ok) or threw (caught at 440);
\* the links are crawled, the job's promise resolves.
SecondaryReturn(w, ok) ==
    /\ loops[w].pc = "secondary"
    /\ LET job   == loops[w].job
           links == JobLinks(job.url, ok)
           s1    == [Cur EXCEPT !.extracted[job.run][job.url] = links]
           s2    == crawlAll(s1, job.run, links, ChildDepth(job.depth), job.url)
       IN /\ Commit(JobResolved(s2, w))
          /\ secRes' = [secRes EXCEPT ![job.run][job.url] = IF ok THEN "ok" ELSE "fail"]
          /\ doneLog' = Append(doneLog, job)
    /\ UNCHANGED <<site, maxDepth, files, started, resolvedRuns, secLog, primRes, linkVars>>

SecondaryOk(w) == SecondaryReturn(w, TRUE)

SecFailures == {ru \in Runs \X Urls : secRes[ru[1]][ru[2]] = "fail"}

SecondaryFail(w) ==
    /\ Cardinality(SecFailures) < MaxSecFail
    /\ SecondaryReturn(w, FALSE)

\* index.ts 242, 238: the timer of rateLimit fired; back to the loop test.
DelayDone(w) ==
    /\ loops[w].pc = "delay"
    /\ Commit(LoopHead([Cur EXCEPT !.gap = "rested"], w))
    /\ UNCHANGED <<site, maxDepth, files, started, resolvedRuns, secLog, primRes, secRes,
                   doneLog, linkVars>>

Next ==
    \/ \E r \in Runs : startCrawling(r)
    \/ \E w \in Loops : PrimaryOk(w)
    \/ \E w \in Loops : PrimaryFail(w)
    \/ \E w \in Loops : SecondaryOk(w)
    \/ \E w \in Loops : SecondaryFail(w)
    \/ \E w \in Loops : DelayDone(w)

Spec == Init /\ [][Next]_vars

\* ------------------------------------------------- calls of isUrlInScope
\* The process with no run started.
InitIdle == InitCrawl({1}, {0}, {{}})

ScopeUrls == {S, SSl, A, ASl, AT, AQ, D, G, X, Dn, DnG, Root, Y, YX}

ScopeBases == {S, SSl, A, Root, Y}

ScopeInit ==
    /\ InitIdle
    /\ lsUrl \in ScopeUrls
    /\ lsBase \in ScopeBases
    /\ lsCur = BaseUrl
    /\ lsContent = <<>>
    /\ lsOut = NoCall

\* index.ts 321-341: isUrlInScope(lsUrl, lsBase) is called and returns.
CallIsUrlInScope ==
    /\ lsOut.fn = "none"
    /\ lsOut' = [fn |-> "isUrlInScope", result |-> isUrlInScope(lsUrl, lsBase)]
    /\ UNCHANGED <<crawlVars, lsBase, lsCur, lsContent, lsUrl>>

ScopeNext == CallIsUrlInScope

ScopeSpec == ScopeInit /\ [][ScopeNext]_vars

\* --------------------------------------------- calls of the link extractors
\* The references a page may hold.
Refs == {Link(A), RootLink(A), Link(S), Link(Dn), Link(Y), Image(B), DotPage1, UpUpOther}

RECURSIVE SeqsUpTo(_, _)
SeqsUpTo(set, n) ==
    IF n = 0 THEN {<<>>}
    ELSE LET shorter == SeqsUpTo(set, n - 1)
         IN shorter \cup {Append(q, x) : q \in shorter, x \in set}

LinkBases == {S, SSl, A, Root}

LinkPages == {S, ASl, G}

LinkInit ==
    /\ InitIdle
    /\ lsBase \in LinkBases
    /\ lsCur \in LinkPages
    /\ lsContent \in SeqsUpTo(Refs, MaxRefs)
    /\ lsUrl = BaseUrl
    /\ lsOut = NoCall

\* index.ts 343-367: extractLinks(lsContent, lsCur, lsBase) is called and returns.
CallExtractLinks ==
    /\ lsOut.fn = "none"
    /\ lsOut' = [fn |-> "extractLinks", result |-> extractLinks(lsContent, lsCur, lsBase)]
    /\ UNCHANGED <<crawlVars, lsBase, lsCur, lsContent, lsUrl>>

\* index.ts 369-395: extractLinksFromHtml(lsContent, lsCur, lsBase) is called
\* and returns.
CallExtractLinksFromHtml ==
    /\ lsOut.fn = "none"
    /\ lsOut' = [fn |-> "extractLinksFromHtml",
                 result |-> extractLinksFromHtml(lsContent, lsCur, lsBase)]
    /\ UNCHANGED <<crawlVars, lsBase, lsCur, lsContent, lsUrl>>

LinkNext == CallExtractLinks \/ CallExtractLinksFromHtml

LinkSpec == LinkInit /\ [][LinkNext]_vars

\* ------------------------- the extractors on images, bad and foreign targets
FilterRefs == {Link(A), Image(B), ImageLink(Jpg, D), Link(Png), Link(PngUp), Link(PngQ),
               Link(AQPng), Malformed, Link(Pdf), Link(Mailto)}

FilterInit ==
    /\ InitIdle
    /\ lsBase = BaseUrl
    /\ lsCur = BaseUrl
    /\ lsContent \in SeqsUpTo(FilterRefs, MaxRefs)
    /\ lsUrl = BaseUrl
    /\ lsOut = NoCall

FilterSpec == FilterInit /\ [][LinkNext]_vars

\* -------------------- calls of normalizeUrl, shouldCrawlUrl and getFilePath
UrlInputs == {S, SSl, A, ASl, AT, AQ, AHash, ARoute, AQT, AQRoute, D, G, Root, Png, Pdf,
              PdfUp, PdfQ, Zip, Mp4, Php, HttpA, Mailto, Js, Ftp, NotAUrl}

UrlBases == {S, Root}

UrlInit ==
    /\ InitIdle
    /\ lsUrl \in UrlInputs
    /\ lsBase \in UrlBases
    /\ lsCur = BaseUrl
    /\ lsContent = <<>>
    /\ lsOut = NoCall

CallNormalizeUrl ==
    /\ lsOut.fn = "none"
    /\ lsUrl # NotAUrl
    /\ lsOut' = [fn |-> "normalizeUrl", result |-> normalizeUrl(lsUrl)]
    /\ UNCHANGED <<crawlVars, lsBase, lsCur, lsContent, lsUrl>>

CallShouldCrawlUrl ==
    /\ lsOut.fn = "none"
    /\ lsOut' = [fn |-> "shouldCrawlUrl", result |-> shouldCrawlUrl(lsUrl)]
    /\ UNCHANGED <<crawlVars, lsBase, lsCur, lsContent, lsUrl>>

\* index.ts 449-456: getFilePath(name, lsBase, lsUrl) for a URL crawl() is
\* called with: the base or an in-scope link.
CallGetFilePath ==
    /\ lsOut.fn = "none"
    /\ isUrlInScope(lsUrl, lsBase)
    /\ lsOut' = [fn |-> "getFilePath", result |-> getFilePath(lsBase, lsUrl)]
    /\ UNCHANGED <<crawlVars, lsBase, lsCur, lsContent, lsUrl>>

UrlNext == CallNormalizeUrl \/ CallShouldCrawlUrl \/ CallGetFilePath

UrlSpec == UrlInit /\ [][UrlNext]_vars

\* ------------------------------------------------------------- properties
Range(seq) == {seq[i] : i \in 1..Len(seq)}

Executing == {w \in Loops : loops[w].pc \in {"primary", "secondary"}}

\* The number of jobs ever enqueued for u in run r.
EnqCount(r, u) == Cardinality({i \in 1..Len(enqLog) : enqLog[i].run = r /\ enqLog[i].url = u})

\* No two entries of log are for the same URL in the same run.
OncePerTarget(log) ==
    \A i, j \in 1..Len(log) :
        log[i].run = log[j].run /\ log[i].url = log[j].url => i = j

\* C1: at most one job executes at any time, whenever addRequest is called;
\* both fetches are issued inside a job, so the fetches in flight at any time
\* are those of one job, for one target.
C1_OneJobAtATime ==
    /\ Cardinality(Executing) <= 1
    /\ \A w1, w2 \in Executing : loops[w1].job = loops[w2].job

\* A job is executing, and jobs have been enqueued while the scheduler was
\* idle, while a job was executing and during the delay.
C1_Witness ==
    /\ Executing # {}
    /\ {"idle", "job", "delay"} \subseteq Range(enqPhase)
    /\ queue # <<>>

\* C2: in one run at most one job is ever enqueued for a URL, also when the
\* URL is discovered from different parent pages.
C2_OneJobPerUrl == OncePerTarget(enqLog)

\* A URL with a job was reached by crawl() calls from two different parents.
C2_Witness ==
    \E c1, c2 \in calls :
        /\ c1.run = c2.run /\ c1.url = c2.url /\ c1.parent # c2.parent
        /\ c1.depth <= maxDepth /\ c2.depth <= maxDepth
        /\ EnqCount(c1.run, c1.url) = 1

\* C3: the seed is visited at depth 0, a child at its parent's depth + 1,
\* nothing is visited, read from disk or queued at a depth above maxDepth, and
\* with maxDepth = 0 only the seed enters the visited set and the queue.
C3_DepthBound ==
    /\ \A r \in Runs : \A u \in visited[r] :
          /\ depthOf[r][u] >= 0 /\ depthOf[r][u] <= maxDepth
          /\ (u = BaseUrl => depthOf[r][u] = 0)
          /\ (parentOf[r][u] # NoUrl =>
                /\ parentOf[r][u] \in visited[r]
                /\ depthOf[r][u] = depthOf[r][parentOf[r][u]] + 1)
          /\ (parentOf[r][u] = NoUrl => u = BaseUrl)
    /\ \A i \in 1..Len(enqLog) :
          /\ enqLog[i].depth <= maxDepth
          /\ enqLog[i].depth = depthOf[enqLog[i].run][enqLog[i].url]
    /\ \A ru \in viaFile : ru[2] \in visited[ru[1]]
    /\ maxDepth = 0 =>
          /\ \A r \in Runs : visited[r] \subseteq {BaseUrl}
          /\ \A i \in 1..Len(enqLog) : enqLog[i].url = BaseUrl

\* With maxDepth = 0 the links of the seed have been passed to crawl() at
\* depth 1 and only the seed is visited.
C3_Witness ==
    /\ maxDepth = 0
    /\ \E c \in calls : c.depth = 1 /\ c.parent = BaseUrl /\ c.url # BaseUrl
    /\ \E r \in Runs : visited[r] = {BaseUrl}

\* A link found at depth maxDepth was refused while unvisited.
C3_WitnessDeep ==
    /\ maxDepth = 2
    /\ \E c \in calls : c.depth = 3 /\ c.url \notin visited[c.run]

\* Run r has no job left: none queued, none executing.
RunFinished(r) ==
    /\ r \in started
    /\ \A i \in 1..Len(queue) : queue[i].run # r
    /\ \A w \in Executing : loops[w].job.run # r

AllFetchesOk ==
    \A r \in Runs : \A u \in Urls : primRes[r][u] # "fail" /\ secRes[r][u] # "fail"

\* The URLs reached from the seed by at most k of the links run r extracted.
RECURSIVE Reach(_, _)
Reach(r, k) ==
    IF k = 0 THEN {BaseUrl}
    ELSE LET prev == Reach(r, k - 1)
         IN prev \cup UNION {Range(extracted[r][u]) : u \in prev}

\* C4: when a run in which every fetch succeeded has finished, every URL
\* reachable from the seed by at most maxDepth extracted links is visited,
\* whichever pages were served from artifacts.
C4_Completeness ==
    \A r \in Runs :
        (RunFinished(r) /\ AllFetchesOk) => Reach(r, maxDepth) \subseteq visited[r]

\* The same for runs in which no page is served from an artifact.
C4_CompleteWhenAllFetched ==
    \A r \in Runs :
        (RunFinished(r) /\ AllFetchesOk /\ ~ \E u \in Urls : <<r, u>> \in viaFile)
            => Reach(r, maxDepth) \subseteq visited[r]

\* C5: a failed primary fetch does not stop the worker: jobs that are queued
\* are never left without an active worker loop.
C5_WorkerSurvivesFailure ==
    (\E r \in Runs : \E u \in Urls : primRes[r][u] = "fail")
        => (queue = <<>> \/ \E w \in Loops : loops[w].pc \in {"primary", "secondary", "delay"})

\* C6: when the primary fetch of a target has failed, the secondary fetch of
\* that target has been issued.
C6_FallbackAttempted ==
    \A r \in Runs : \A u \in Urls :
        primRes[r][u] = "fail" => \E i \in 1..Len(secLog) : secLog[i].run = r /\ secLog[i].url = u

\* C7: a job whose primary fetch succeeded and whose secondary fetch failed
\* has resolved, the artifact of its target holds the primary content, and
\* every Markdown link has been passed to crawl() at depth + 1.
C7_SecondaryFailureTolerated ==
    \A r \in Runs : \A u \in Urls :
        (primRes[r][u] = "ok" /\ secRes[r][u] = "fail") =>
            /\ \E i \in 1..Len(doneLog) : doneLog[i].run = r /\ doneLog[i].url = u
            /\ files[getFilePath(BaseUrl, u)] = SplitHash(u)
            /\ \A link \in Range(extractLinks(fetchContent(u), u, BaseUrl)) :
                  [run |-> r, parent |-> u, url |-> link, depth |-> depthOf[r][u] + 1] \in calls

\* The parts of C7 that do not depend on which target owns the file path.
C7_JobResolvesAndCrawlsMdLinks ==
    \A r \in Runs : \A u \in Urls :
        (primRes[r][u] = "ok" /\ secRes[r][u] = "fail") =>
            /\ \E i \in 1..Len(doneLog) : doneLog[i].run = r /\ doneLog[i].url = u
            /\ existsSync(getFilePath(BaseUrl, u))
            /\ \A link \in Range(extractLinks(fetchContent(u), u, BaseUrl)) :
                  [run |-> r, parent |-> u, url |-> link, depth |-> depthOf[r][u] + 1] \in calls

\* C8: a target none of whose fetches succeeded stays visited, has had one
\* job only, and no crawl() call was made on its behalf.
C8_TotalFailure ==
    \A r \in Runs : \A u \in Urls :
        (primRes[r][u] = "fail" /\ secRes[r][u] # "ok") =>
            /\ u \in visited[r]
            /\ EnqCount(r, u) = 1
            /\ extracted[r][u] = <<>>
            /\ ~ \E c \in calls : c.run = r /\ c.parent = u

\* The proxy fetch of a page that has links failed.
C8_Witness ==
    \E r \in Runs : \E u \in Urls :
        /\ primRes[r][u] = "fail" /\ secRes[r][u] = "none"
        /\ extractLinks(fetchContent(u), u, BaseUrl) # <<>>
        /\ u \in visited[r]

\* FileLinks[s][p][u]: the links extractLinks finds for u in the Markdown of
\* page p of site s.
FileLinks ==
    [s \in DOMAIN Sites |-> [p \in Urls |-> [u \in Urls |->
        Range(extractLinks(Sites[s][p].md, u, BaseUrl))]]]

\* C9: a target whose artifact exists when crawl() visits it gets no job and
\* no fetch, and every in-scope link of the stored content is passed to
\* crawl() at depth + 1.
C9_ArtifactShortCircuit ==
    \A ru \in viaFile :
        LET r == ru[1]
            u == ru[2]
        IN /\ EnqCount(r, u) = 0
           /\ primRes[r][u] = "none" /\ secRes[r][u] = "none"
           /\ \A i \in 1..Len(execLog) : ~(execLog[i].run = r /\ execLog[i].url = u)
           /\ \A i \in 1..Len(secLog) : ~(secLog[i].run = r /\ secLog[i].url = u)
           /\ \A link \in FileLinks[site][files[getFilePath(BaseUrl, u)]][u] :
                 [run |-> r, parent |-> u, url |-> link, depth |-> depthOf[r][u] + 1] \in calls

\* A page with links was served from its artifact.
C9_Witness ==
    \E ru \in viaFile :
        /\ extractLinks(readFileSync(getFilePath(BaseUrl, ru[2])), ru[2], BaseUrl) # <<>>
        /\ depthOf[ru[1]][ru[2]] < maxDepth

\* C10: no job starts right after a job: between the end of a job and the
\* start of the next the delay has elapsed.
C10_DelayBetweenJobs ==
    \A i \in 1..Len(gapAtStart) : gapAtStart[i] # "ended"

\* Jobs that were queued before, during a job and during the delay have all
\* started after a delay.
C10_Witness ==
    /\ \A ph \in {"job", "delay"} :
          \E i \in 1..Len(enqLog) : \E j \in 1..Len(execLog) :
              /\ enqPhase[i] = ph
              /\ execLog[j] = enqLog[i]
              /\ gapAtStart[j] = "rested"
    /\ Len(doneLog) >= 2

\* The job of u in run r is queued or executing.
InFlight(r, u) ==
    \/ \E i \in 1..Len(queue) : queue[i].run = r /\ queue[i].url = u
    \/ \E w \in Executing : loops[w].job.run = r /\ loops[w].job.url = u

\* C11: when the promise of startCrawling has resolved, the run has no job
\* queued and none executing.
C11_ResolvedMeansDone ==
    \A r \in resolvedRuns : RunFinished(r)

\* The child branches of p in run r whose job has not finished.
ChildrenInFlight(r, p) == {u \in visited[r] : parentOf[r][u] = p /\ InFlight(r, u)}

\* C12: at most 2 child crawl branches of a page are in flight at a time.
C12_FanOutBound ==
    \A r \in Runs : \A p \in Urls : Cardinality(ChildrenInFlight(r, p)) <= 2

\* C13: URLs that differ only in a fragment without "/" are one target: at
\* most one of them is in the visited set of a run.
C13_VisitedNormalized ==
    \A r \in Runs : \A u, v \in visited[r] : normalizeUrl(u) = normalizeUrl(v) => u = v

\* C14: in one run the primary fetch of a target is issued at most once and
\* its secondary fetch at most once, also after a fetch has failed.
C14_OneAttemptEach ==
    /\ OncePerTarget(execLog)
    /\ OncePerTarget(secLog)
    /\ \A i \in 1..Len(secLog) : primRes[secLog[i].run][secLog[i].url] # "fail"

\* A primary fetch has failed, a secondary fetch has failed, and the target
\* of the failed secondary fetch was found again on another page.
C14_Witness ==
    /\ \E r \in Runs : \E u \in Urls : primRes[r][u] = "fail"
    /\ \E c \in calls :
          /\ secRes[c.run][c.url] = "fail"
          /\ c.parent # parentOf[c.run][c.url]
          /\ c.depth <= maxDepth

MdLinks(u) == FileLinks[site][SplitHash(u)][u]

\* PageLinks[s][u]: the links extractLinksFromHtml finds in the HTML of u.
PageLinks ==
    [s \in DOMAIN Sites |-> [u \in Urls |->
        Range(extractLinksFromHtml(Sites[s][SplitHash(u)].html, u, BaseUrl))]]

HtmlLinks(u) == PageLinks[site][u]

\* The URLs crawl() was called with from page p of run r, with their depth.
Recursed(r, p) == {<<c.url, c.depth>> : c \in {d \in calls : d.run = r /\ d.parent = p}}

\* C15: when both fetches of a target have succeeded (its job is in doneLog
\* with result "ok"), the job has recursed into exactly the union of its
\* Markdown links and its HTML links, each at depth + 1.
C15_UnionOfLinks ==
    \A i \in 1..Len(doneLog) :
        LET r == doneLog[i].run
            u == doneLog[i].url
        IN secRes[r][u] = "ok" =>
              /\ primRes[r][u] = "ok"
              /\ Recursed(r, u) =
                    {<<l, doneLog[i].depth + 1>> : l \in MdLinks(u) \cup HtmlLinks(u)}

\* Both fetches have succeeded for a page with only HTML links, for a page
\* with only Markdown links and for a page whose two link sets differ.
C15_Witness ==
    \E r \in Runs : \E u1, u2, u3 \in Urls :
        /\ \A u \in {u1, u2, u3} : secRes[r][u] = "ok"
        /\ MdLinks(u1) = {} /\ HtmlLinks(u1) # {}
        /\ MdLinks(u2) # {} /\ HtmlLinks(u2) = {}
        /\ MdLinks(u3) \ HtmlLinks(u3) # {} \/ HtmlLinks(u3) \ MdLinks(u3) # {}
        /\ MdLinks(u3) # {} /\ HtmlLinks(u3) # {}

\* u has the origin of base and its path is the path of base or starts with
\* it and a "/".
UnderBase(u, base) ==
    /\ u.org = base.org
    /\ \/ u.path = base.path
       \/ /\ Len(u.path) > Len(base.path)
          /\ \A i \in 1..Len(base.path) : u.path[i] = base.path[i]

\* C16: every visited URL other than the seed, and every URL with a job or
\* a fetch, has the base origin and a path at or under the base path.
C16_VisitedInScope ==
    /\ \A r \in Runs : \A u \in visited[r] : u # BaseUrl => UnderBase(u, BaseUrl)
    /\ \A i \in 1..Len(enqLog) : UnderBase(enqLog[i].url, BaseUrl)
    /\ \A i \in 1..Len(execLog) : UnderBase(execLog[i].url, BaseUrl)
    /\ \A i \in 1..Len(secLog) : UnderBase(secLog[i].url, BaseUrl)

\* Pages that refer to another origin and to a path outside the base path
\* have been fetched, and their in-scope links are visited.
C16_Witness ==
    \E r \in Runs :
        LET refs == UNION {Range(Sites[site][u].md) \cup Range(Sites[site][u].html) :
                            u \in {v \in Urls : secRes[r][v] = "ok"}}
        IN /\ \E l \in refs : l.kind = "link" /\ l.url.org \notin {"", BaseUrl.org}
           /\ \E l \in refs : l.kind = "link" /\ l.url.org = BaseUrl.org
                                /\ ~UnderBase(l.url, BaseUrl)
           /\ Cardinality(visited[r]) >= 3

\* The segments of a path, an ending slash left out.
Segments(path) ==
    IF path # <<>> /\ path[Len(path)] = "" THEN SubSeq(path, 1, Len(path) - 1) ELSE path

\* u has the origin of base and the path of base or of a descendant of it.
AtOrBelow(u, base) ==
    LET us == Segments(u.path)
        bs == Segments(base.path)
    IN /\ u.org = base.org
       /\ Len(bs) <= Len(us)
       /\ \A i \in 1..Len(bs) : us[i] = bs[i]

\* C17: isUrlInScope(u, base) is true exactly when u has the origin of base
\* and its path is the path of base or a descendant of it; it is false for
\* another origin and for a sibling path that shares a string prefix with
\* the base path.
C17_ScopeIsOriginAndSubtree ==
    lsOut.fn = "isUrlInScope" =>
        /\ lsOut.result = AtOrBelow(lsUrl, lsBase)
        /\ (lsUrl.org # lsBase.org => lsOut.result = FALSE)
        /\ (lsBase = S /\ lsUrl \in {Dn, DnG} => lsOut.result = FALSE)
        /\ (lsBase = S /\ lsUrl \in {S, SSl, A, ASl, AT, AQ, D, G} => lsOut.result = TRUE)

\* isUrlInScope has refused /documentation/guide for base /docs.
C17_Witness ==
    /\ lsOut.fn = "isUrlInScope"
    /\ lsBase = S /\ lsUrl = DnG
    /\ lsOut.result = FALSE

\* B + "/"
WithSlash(base) == [base EXCEPT !.path = Append(@, "")]

EndsInSlash(base) == base.path[Len(base.path)] = ""

AllAbsolute(content) == \A i \in 1..Len(content) : content[i].abs

\* What the extractor that was called returns for base b.
SameCallWithBase(b) ==
    IF lsOut.fn = "extractLinks" THEN extractLinks(lsContent, lsCur, b)
    ELSE extractLinksFromHtml(lsContent, lsCur, b)

\* C18 as stated: for every base B an absolute link is kept with base B
\* exactly when it is kept with base B + "/".
C18_SlashAddedToAnyBase ==
    lsOut.fn \in {"extractLinks", "extractLinksFromHtml"} /\ AllAbsolute(lsContent) =>
        lsOut.result = SameCallWithBase(WithSlash(lsBase))

\* C18: for every base B whose path does not end in "/", an absolute link is
\* kept with base B exactly when it is kept with base B + "/".
C18_TrailingSlashIgnored ==
    /\ lsOut.fn \in {"extractLinks", "extractLinksFromHtml"}
    /\ AllAbsolute(lsContent)
    /\ ~EndsInSlash(lsBase)
    => lsOut.result = SameCallWithBase(WithSlash(lsBase))

\* With base /docs, of two absolute links one was kept and one dropped.
C18_Witness ==
    /\ lsOut.fn = "extractLinks"
    /\ lsBase = S
    /\ AllAbsolute(lsContent)
    /\ Len(lsContent) = 2
    /\ Len(lsOut.result) = 1

\* What new URL(ref, page) is for the relative references and pages used.
Expected(ref, page) ==
    CASE ref = DotPage1  /\ page = S   -> RootPage1
      [] ref = DotPage1  /\ page = ASl -> APage1
      [] ref = DotPage1  /\ page = G   -> GPage1
      [] ref = UpUpOther               -> OtherPage
      [] ref = RootLink(A)             -> A

Relative(content) == {content[i] : i \in {j \in 1..Len(content) : ~content[j].abs}}

\* C19: a relative link is resolved against the page it is found on and
\* kept when that URL is in scope of the base: from /docs/guide/intro.html
\* with base /docs, "./page1.html" yields /docs/guide/page1.html and
\* "../../other/page.html" yields nothing.
C19_RelativeAgainstPage ==
    lsOut.fn \in {"extractLinks", "extractLinksFromHtml"} =>
        /\ \A ref \in Relative(lsContent) :
              Expected(ref, lsCur) \in Range(lsOut.result)
                  <=> AtOrBelow(Expected(ref, lsCur), lsBase)
        /\ lsCur = G /\ lsBase = S =>
              /\ (DotPage1 \in Range(lsContent) => GPage1 \in Range(lsOut.result))
              /\ OtherPage \notin Range(lsOut.result)
              /\ RootPage1 \notin Range(lsOut.result)

\* From /docs/guide/intro.html with base /docs, the content holding both
\* relative links, extractLinks has returned /docs/guide/page1.html alone.
C19_Witness ==
    /\ lsOut.fn = "extractLinks"
    /\ lsCur = G /\ lsBase = S
    /\ {DotPage1, UpUpOther} \subseteq Range(lsContent)
    /\ lsOut.result = <<GPage1>>

\* C20: the result of extractLinks and of extractLinksFromHtml holds no URL
\* twice, also when an absolute and a root-relative reference resolve to the
\* same URL.
C20_NoDuplicates ==
    lsOut.fn \in {"extractLinks", "extractLinksFromHtml"} =>
        /\ \A i, j \in 1..Len(lsOut.result) : lsOut.result[i] = lsOut.result[j] => i = j
        /\ (Range(lsContent) = {Link(A), RootLink(A)} /\ lsBase = S =>
               lsOut.result = <<A>>)

\* An absolute and a root-relative reference to /docs/a have given one URL.
C20_Witness ==
    /\ lsOut.fn = "extractLinksFromHtml"
    /\ lsContent = <<Link(A), RootLink(A)>>
    /\ lsOut.result = <<A>>

\* C21: extractLinks returns only targets of link constructs, never the
\* target of an image construct, and of a link whose label is an image
\* construct it returns the page and not the image.
C21_ImagesExcluded ==
    lsOut.fn = "extractLinks" =>
        /\ \A u \in Range(lsOut.result) :
              \E i \in 1..Len(lsContent) : lsContent[i].kind # "image" /\ lsContent[i].url = u
        /\ B \notin Range(lsOut.result)
        /\ Jpg \notin Range(lsOut.result)
        /\ (ImageLink(Jpg, D) \in Range(lsContent) => D \in Range(lsOut.result))

\* Of an image and a link with an image label, extractLinks has returned the
\* page of the link alone.
C21_Witness ==
    /\ lsOut.fn = "extractLinks"
    /\ lsContent = <<Image(B), ImageLink(Jpg, D)>>
    /\ lsOut.result = <<D>>

PathHasImageExtension(u) == Extension(u.path[Len(u.path)]) \in imageExtensions

\* C22: extractLinksFromHtml returns no href whose path ends in an image
\* extension, and returns every other in-scope href.
C22_ImagePathsExcluded ==
    lsOut.fn = "extractLinksFromHtml" =>
        /\ \A u \in Range(lsOut.result) : ~PathHasImageExtension(u)
        /\ \A i \in 1..Len(lsContent) :
              LET a == lsContent[i]
              IN (/\ a.kind # "image"
                  /\ a # Malformed
                  /\ AtOrBelow(a.url, lsBase)
                  /\ ~PathHasImageExtension(a.url))
                 => a.url \in Range(lsOut.result)

\* What the extractor that was called returns for content.
SameCallOn(content) ==
    IF lsOut.fn = "extractLinks" THEN extractLinks(content, lsCur, lsBase)
    ELSE extractLinksFromHtml(content, lsCur, lsBase)

\* C23: a malformed candidate is dropped alone: the result is that for the
\* content without it.
C23_MalformedSkipped ==
    lsOut.fn \in {"extractLinks", "extractLinksFromHtml"} =>
        lsOut.result = SameCallOn(SelectSeq(lsContent, LAMBDA it : it # Malformed))

\* A malformed candidate came before a good link, and the link was returned.
C23_Witness ==
    /\ lsOut.fn = "extractLinks"
    /\ lsContent = <<Malformed, Link(A)>>
    /\ lsOut.result = <<A>>

\* C24: the extractors return no URL that fails shouldCrawlUrl.
C24_OnlyCrawlableReturned ==
    lsOut.fn \in {"extractLinks", "extractLinksFromHtml"} =>
        \A u \in Range(lsOut.result) : shouldCrawlUrl(u)

\* C25: shouldCrawlUrl is false for a scheme other than http and https,
\* for a path ending in a non-document extension in either case, and for
\* what does not parse; it is true for every other http or https URL.
C25_ShouldCrawl ==
    lsOut.fn = "shouldCrawlUrl" =>
        /\ (lsUrl \in {Mailto, Js, Ftp, NotAUrl} => lsOut.result = FALSE)
        /\ (lsUrl \in {Pdf, PdfUp, PdfQ, Zip, Mp4} => lsOut.result = FALSE)
        /\ (lsUrl \in {S, SSl, A, ASl, AT, AQ, AHash, ARoute, AQT, AQRoute, D, G, Root,
                        Png, Php, HttpA} => lsOut.result = TRUE)

\* shouldCrawlUrl has refused a path ending in .PDF.
C25_Witness ==
    /\ lsOut.fn = "shouldCrawlUrl"
    /\ lsUrl = PdfUp
    /\ lsOut.result = FALSE

\* C26: normalizeUrl returns u itself when the fragment of u contains "/" or
\* u has no fragment, and u without "#" and fragment otherwise; the query
\* is kept.
C26_Normalize ==
    lsOut.fn = "normalizeUrl" =>
        /\ lsOut.result = CASE lsUrl = AT    -> A
                             [] lsUrl = AHash -> A
                             [] lsUrl = AQT   -> AQ
                             [] OTHER         -> lsUrl
        /\ lsOut.result.query = lsUrl.query

\* normalizeUrl has dropped "#top" and kept the query.
C26_Witness ==
    /\ lsOut.fn = "normalizeUrl"
    /\ lsUrl = AQT
    /\ lsOut.result = AQ

\* The path of u relative to base, "index" when it is empty.
RelativePath(u, base) ==
    LET rel == SubSeq(Segments(u.path), Len(Segments(base.path)) + 1, Len(Segments(u.path)))
    IN IF rel = <<>> THEN <<"index">> ELSE rel

\* C27: the artifact of U under base B is at the path of U relative to B,
\* and at index when U is B.
C27_ArtifactLayout ==
    lsOut.fn = "getFilePath" => lsOut.result = RelativePath(lsUrl, lsBase)

\* ------------------------------------------------- the scheduler on its own
\* index.ts 224-248: RequestScheduler with any caller: addRequest(fn) is
\* called at any moment, with a job fn that resolves or rejects.
SchedJobs == <<S, A, B, C, D>>

SchedInit == InitIdle /\ InitNoLinkCall

\* index.ts 228-231: addRequest(fn) for the next job.
CallAddRequest ==
    /\ Len(enqLog) < MaxJobs
    /\ Len(enqLog) < Len(SchedJobs)
    /\ Commit(addRequest(Cur, Job(1, SchedJobs[Len(enqLog) + 1], 0)))
    /\ UNCHANGED <<site, maxDepth, files, started, resolvedRuns, secLog, primRes, secRes,
                   doneLog, linkVars>>

\* index.ts 241: the promise of fn() resolves.
FnResolves(w) ==
    /\ loops[w].pc = "primary"
    /\ Commit(JobResolved(Cur, w))
    /\ doneLog' = Append(doneLog, loops[w].job)
    /\ UNCHANGED <<site, maxDepth, files, started, resolvedRuns, secLog, primRes, secRes,
                   linkVars>>

\* index.ts 241: the promise of fn() rejects.
FnRejects(w) ==
    /\ loops[w].pc = "primary"
    /\ Commit(JobRejected(Cur, w))
    /\ UNCHANGED <<site, maxDepth, files, started, resolvedRuns, secLog, primRes, secRes,
                   doneLog, linkVars>>

SchedNext ==
    \/ CallAddRequest
    \/ \E w \in Loops : FnResolves(w)
    \/ \E w \in Loops : FnRejects(w)
    \/ \E w \in Loops : DelayDone(w)

SchedSpec == SchedInit /\ [][SchedNext]_vars

\* What the handlers of a loop's awaits do to the loop: PrimaryOk(w) moves
\* it to the direct fetch, SecondaryOk(w) to the timer, DelayDone(w) to the
\* loop test. Each is enabled exactly when its handler is, and a step of
\* the crawl that satisfies it is a step of that handler.
PrimaryReturns(w) ==
    /\ loops[w].pc = "primary"
    /\ loops' = [loops EXCEPT ![w].pc = "secondary"]

SecondaryReturns(w) ==
    /\ loops[w].pc = "secondary"
    /\ loops' = [loops EXCEPT ![w].pc = "delay"]

TimerFires(w) ==
    /\ loops[w].pc = "delay"
    /\ loops' = [loops EXCEPT ![w] = IF queue = <<>> THEN IdleLoop
                                     ELSE [pc |-> "primary", job |-> Head(queue)]]

\* index.ts 241-242, 424, 430: an await of a loop does not last for ever:
\* got() settles and the timer of rateLimit fires.
Fairness ==
    \A w \in Loops : /\ WF_loops(PrimaryReturns(w))
                      /\ WF_loops(SecondaryReturns(w))
                      /\ WF_loops(TimerFires(w))

\* The steps of a crawl whose fetches all succeed.
NextOk ==
    \/ \E r \in Runs : startCrawling(r)
    \/ \E w \in Loops : PrimaryOk(w)
    \/ \E w \in Loops : SecondaryOk(w)
    \/ \E w \in Loops : DelayDone(w)

LiveSpec == Init /\ [][NextOk]_vars /\ Fairness

\* --------------------------------------------------------- a run repeated
\* Site4 crawled to RerunDepth with any of the artifacts of S, A and C on
\* disk, left there by earlier crawls; every fetch succeeds.
RerunDepth == 3

RerunInit ==
    /\ InitCrawl({4}, {RerunDepth}, SUBSET {S, A, C})
    /\ InitNoLinkCall

RerunSpec == RerunInit /\ [][NextOk]_vars

Quiescent ==
    /\ queue = <<>>
    /\ Executing = {}
    /\ isRunning = FALSE

\* C28: when every fetch returns successfully, the queue is in the end
\* empty for good, with no job executing and isRunning false.
C28_Termination == <>[]Quiescent

\* A run of three pages or more has ended with every fetch successful: the
\* queue is empty, nothing executes and the loop has ended.
C28_Witness ==
    /\ Quiescent
    /\ AllFetchesOk
    /\ Len(doneLog) >= 3
    /\ \A w \in Loops : loops[w].pc = "none"

C30_AtMostOnce == execLog \o queue = enqLog

\* A job has failed, another has succeeded, jobs wait in the queue, and
\* none of them is a job that was started.
C30_Witness ==
    /\ \E w \in Loops : loops[w].pc = "dead"
    /\ doneLog # <<>>
    /\ queue # <<>>
    /\ Len(execLog) >= 2

\* A loop of processQueue is between its start and its end.
LoopActive == \E w \in Loops : loops[w].pc \in {"primary", "secondary", "delay"}

\* C31: addRequest starts a loop only when none is active, and then the
\* job starts at once; a loop that finds the queue empty after the delay
\* ends and clears isRunning; this holds again for an enqueue after that.
C31_LazyStartAndRestart ==
    [][/\ (Len(enqLog') > Len(enqLog) /\ isRunning) =>
            /\ loops' = loops
            /\ execLog' = execLog
       /\ (Len(enqLog') > Len(enqLog) /\ ~isRunning) =>
            /\ isRunning'
            /\ execLog' = Append(execLog, enqLog'[Len(enqLog')])
            /\ \E w \in Loops : loops'[w] = [pc |-> "primary", job |-> enqLog'[Len(enqLog')]]
       /\ \A w \in Loops :
            (loops[w].pc = "delay" /\ loops'[w] # loops[w] /\ queue = <<>>) =>
                /\ loops'[w] = IdleLoop
                /\ ~isRunning'
      ]_vars

\* A job was enqueued while no loop was active, after a loop had ended
\* with the delay over, and has run to its end.
C31_Witness ==
    /\ Len(doneLog) >= 2
    /\ \E i \in 2..Len(execLog) :
          /\ enqPhase[i] = "idle"
          /\ gapAtStart[i] = "rested"
          /\ execLog[i] \in Range(doneLog)

\* C32: isRunning is true exactly when a loop is active, and the queue is
\* never non-empty while no loop is active.
C32_RunningIffLoopActive ==
    /\ isRunning <=> LoopActive
    /\ queue # <<>> => LoopActive

\* The jobs that the crawl calls of job's links enqueued.
ChildJobs(job) ==
    {i \in 1..Len(enqLog) : /\ enqLog[i].run = job.run
                            /\ parentOf[job.run][enqLog[i].url] = job.url}

\* C33: a job that has crawled its links has resolved, whatever it left in
\* the queue: the loop that ran it is at the delay or further, and while
\* no job has failed, jobs in the queue have a loop that will take them.
C33_JobNeverWaitsForQueue ==
    /\ \A i \in 1..Len(doneLog) : \A w \in Loops :
          loops[w].job = doneLog[i] => loops[w].pc = "delay"
    /\ \A w \in Executing : ChildJobs(loops[w].job) = {}
    /\ queue # <<>> => LoopActive

\* A job has resolved with two jobs of its child links queued behind it,
\* and the first of them has started since.
C33_Witness ==
    \E i \in 1..Len(doneLog) :
        /\ Cardinality(ChildJobs(doneLog[i])) >= 2
        /\ \E k \in ChildJobs(doneLog[i]) : k <= Len(execLog)
        /\ \E k \in ChildJobs(doneLog[i]) : k > Len(execLog)

\* C34: a file that exists keeps its content in every step.
C34_ArtifactWrittenOnce ==
    [][\A p \in FilePaths : files[p] # NoUrl => files'[p] = files[p]]_vars

\* Two jobs have saved different pages to one path; the file holds the
\* page of the first.
C34_Witness ==
    \E i, j \in 1..Len(secLog) :
        /\ i < j
        /\ SplitHash(secLog[i].url) # SplitHash(secLog[j].url)
        /\ saveFilePath(BaseUrl, SplitHash(secLog[i].url))
             = saveFilePath(BaseUrl, SplitHash(secLog[j].url))
        /\ files[saveFilePath(BaseUrl, SplitHash(secLog[i].url))] = SplitHash(secLog[i].url)

\* The path crawl() checks for u is the path the job of u writes to.
SamePathForAll ==
    \A u \in Urls : getFilePath(BaseUrl, u) = saveFilePath(BaseUrl, SplitHash(u))

\* C35: the path crawl() checks for u is the path the job of u writes to,
\* and the file of every URL a job has saved exists.
C35_CheckFindsSavedFile ==
    /\ SamePathForAll
    /\ \A i \in 1..Len(secLog) : existsSync(getFilePath(BaseUrl, secLog[i].url))

\* A page saved by a job of the first run was served from its file in the
\* second run, and a URL with a fragment from the file of its page.
C35_Witness ==
    /\ \E i \in 1..Len(secLog) : secLog[i].run = 1 /\ <<2, secLog[i].url>> \in viaFile
    /\ \E ru \in viaFile : \E i \in 1..Len(secLog) :
          ru[2].frag # <<>> /\ secLog[i].url = SplitHash(ru[2])

\* C36: the URLs of a visited set have distinct file paths.
C36_DistinctPaths ==
    \A r \in Runs : \A u, v \in visited[r] :
        u # v => getFilePath(BaseUrl, u) # getFilePath(BaseUrl, v)

\* The URLs that crawl calls of run r within maxDepth were made for.
CalledIn(r) == {c.url : c \in {d \in calls : d.run = r /\ d.depth <= maxDepth}}

\* C38: across the runs at most one job executes at a time, a job that
\* starts after a job of another run starts after the delay, and the
\* visited set of a run holds the URLs of that run's crawl calls, the seed
\* included, whatever the other runs have visited.
C38_SharedSchedulerPrivateVisited ==
    /\ Cardinality({w \in Loops : loops[w].pc \in {"primary", "secondary"}}) <= 1
    /\ \A i \in 2..Len(execLog) :
          execLog[i].run # execLog[i - 1].run => gapAtStart[i] = "rested"
    /\ \A r \in Runs : visited[r] = CalledIn(r)
    /\ \A r \in started : BaseUrl \in visited[r]

\* Jobs of two runs have run one after the other, after the delay, and
\* the second run has visited a page that the first had visited before.
C38_Witness ==
    /\ \E i \in 2..Len(execLog) : execLog[i].run # execLog[i - 1].run
    /\ \E i, j \in 1..Len(doneLog) : doneLog[i].run # doneLog[j].run
    /\ visited[1] \cap visited[2] # {}
    /\ visited[1] # visited[2]

\* A run has finished with every fetch successful and nothing is left to do.
SomeRunComplete ==
    /\ started # {}
    /\ \A r \in started : RunFinished(r)
    /\ AllFetchesOk
    /\ ~LoopActive

\* C37: a run started after a run has finished with every fetch successful
\* enqueues no job, and serves every target it visits from its artifact.
C37_RerunEnqueuesNothing ==
    [][\A r \in Runs :
          (SomeRunComplete /\ r \notin started /\ r \in started') =>
              /\ enqLog' = enqLog
              /\ \A u \in visited'[r] : <<r, u>> \in viaFile'
      ]_vars

====
